---------------------------- MODULE Spec2Model ----------------------------
(***************************************************************************)
(* The rollout buffer of src/common.py (Buffer, get_stats) and the         *)
(* training loop of src/vpg.py (vpg) as a state machine.                   *)
(*                                                                         *)
(* Numbers.  The code computes in floating point.  The model computes in   *)
(* exact rational arithmetic extended with the three IEEE non-finite       *)
(* values: a number is a pair <<n, d>>, in lowest terms with d > 0 when it *)
(* is finite, and <<1,0>> = +inf, <<-1,0>> = -inf, <<0,0>> = NaN.  Rounding  *)
(* of float32/float64 is not modelled.                                     *)
(*                                                                         *)
(* Arrays are functions over 0 .. size-1, indexed as in the source.        *)
(*                                                                         *)
(* Assertions are taken as enabled (the interpreter is not run with -O):   *)
(* a failed assert ends the run, recorded in err, and nothing runs after.  *)
(*                                                                         *)
(* Logging (Logger, SummaryWriter, the episode counter) and rendering are  *)
(* left out: they read the state below and write none of it.               *)
(***************************************************************************)
EXTENDS Integers, Sequences, FiniteSets, TLC

----------------------------------------------------------------------------
(* Bounds of the model *)

\* largest buffer capacity (Buffer's size argument) explored
MaxSize == 4
\* largest number of Buffer method calls made by the free caller of Spec
MaxCalls == 6
\* largest steps_per_epoch of a run of the training loop
MaxEpochSteps == 3
\* largest number of environment interactions (steps_per_epoch * epochs) of a
\* run of the training loop
MaxSteps == 4
\* largest max_ep_len of a run of the training loop
MaxEpLen == 3
\* longest array handed to discount_cumsum and get_stats called on their own
MaxLen == 3

----------------------------------------------------------------------------
(* Extended rational arithmetic *)

Abs(n) == IF n < 0 THEN -n ELSE n

Sgn(n) == IF n < 0 THEN -1 ELSE IF n > 0 THEN 1 ELSE 0

RECURSIVE GCD(_, _)
GCD(a, b) == IF b = 0 THEN a ELSE GCD(b, a % b)

\* the number n/d in canonical form
RNorm(n, d) ==
    IF d = 0 THEN <<Sgn(n), 0>>
    ELSE LET g == GCD(Abs(n), Abs(d))
             s == IF d < 0 THEN -1 ELSE 1
         IN  <<(s * n) \div g, (s * d) \div g>>

Zero == <<0, 1>>
One == <<1, 1>>
NaN == <<0, 0>>
PosInf == <<1, 0>>
NegInf == <<-1, 0>>

IsFinite(x) == x[2] # 0

RInt(n) == <<n, 1>>

RNeg(x) == <<-x[1], x[2]>>

RAdd(x, y) ==
    IF IsFinite(x) /\ IsFinite(y)
    THEN LET g == GCD(x[2], y[2])
         IN  RNorm(x[1] * (y[2] \div g) + y[1] * (x[2] \div g), x[2] * (y[2] \div g))
    ELSE IF x = NaN \/ y = NaN THEN NaN
    ELSE IF ~IsFinite(x) /\ ~IsFinite(y) THEN (IF x = y THEN x ELSE NaN)
    ELSE IF ~IsFinite(x) THEN x ELSE y

RSub(x, y) == RAdd(x, RNeg(y))

RMul(x, y) == RNorm(x[1] * y[1], x[2] * y[2])

\* IEEE division: x/0 is +-inf by the sign of x, 0/0 and inf/inf are NaN
RDiv(x, y) ==
    LET s == IF y[1] < 0 THEN -1 ELSE 1
    IN  RNorm(s * x[1] * y[2], s * x[2] * y[1])

RLt(x, y) == x[1] * y[2] < y[1] * x[2]

\* largest k in lo .. hi with k*k <= n  (lo*lo <= n < (hi+1)*(hi+1))
RECURSIVE ISqrtIn(_, _, _)
ISqrtIn(n, lo, hi) ==
    IF lo = hi THEN lo
    ELSE LET mid == (lo + hi + 1) \div 2
         IN  IF mid * mid <= n THEN ISqrtIn(n, mid, hi) ELSE ISqrtIn(n, lo, mid - 1)

\* the integer square root of n < 2^31 (46340 is that of 2^31 - 1)
ISqrt(n) == ISqrtIn(n, 0, IF n < 46340 THEN n ELSE 46340)

\* np.sqrt: exact on squares of rationals, otherwise rounded down to a
\* multiple of 1/(10 d); NaN on negative numbers and NaN
RSqrt(x) ==
    IF x = NaN \/ x[1] < 0 THEN NaN
    ELSE IF x = PosInf THEN PosInf
    ELSE RNorm(ISqrt(x[1] * x[2] * 10 * 10), x[2] * 10)

\* sum of the first k entries of the array f (np.sum)
RECURSIVE RSumTo(_, _)
RSumTo(f, k) == IF k = 0 THEN Zero ELSE RAdd(RSumTo(f, k - 1), f[k - 1])

\* x to the power k, k >= 0
RECURSIVE RPow(_, _)
RPow(x, k) == IF k = 0 THEN One ELSE RMul(x, RPow(x, k - 1))

----------------------------------------------------------------------------
(* Inputs *)

\* discount factors gamma and GAE parameters lam the buffer is built with
Gammas == {<<9, 10>>, <<1, 2>>}
Lams == {<<1, 2>>}
\* the gamma and lam a training run is started with
VpgGammas == {<<9, 10>>}
VpgLams == {<<1, 2>>}

\* observations, actions, log-probabilities, rewards, value estimates
ObsSet == {1, 2}
ActSet == {1}
LogpSet == {-1}
RewSet == {Zero, One}
ValSet == {Zero, <<1, 2>>}
\* bootstrap values handed to finish_path by the free caller
LastVals == {Zero, <<2, 1>>}
\* the timesteps <<obs, act, rew, val, logp>> the free caller stores: every
\* observation, action, reward and log-probability, the value estimate being
\* that of a Learner with value 0 at observation 1 and 1/2 at observation 2
StoreArgs ==
    {<<o, act, rew, (IF o = 1 THEN Zero ELSE <<1, 2>>), logp>> :
        o \in ObsSet, act \in ActSet, rew \in RewSet, logp \in LogpSet}

\* entries and discounts of the arrays handed to discount_cumsum and
\* get_stats called on their own
FnVals == {Zero, One, <<-1, 1>>, <<1, 2>>}
FnDiscounts == {Zero, <<1, 2>>, <<9, 10>>}
FnArrays == UNION {[1 .. n -> FnVals] : n \in 1 .. MaxLen}

----------------------------------------------------------------------------
(* State *)

VARIABLES
    \* Buffer fields (src/common.py:52-60)
    obs_buf, act_buf, adv_buf, val_buf, rew_buf, ret_buf, logp_buf,
    gamma, lam, ptr, path_start_idx, max_size,
    \* the size argument the buffer was constructed with
    size,
    \* "none", or the exception that ended the run
    err,
    \* the latest Buffer method call: its name, and for finish_path the
    \* segment start it found and the last_val it was given
    op,
    \* history: the trajectory segments finalized since the buffer was built
    \* or last drained, each with its bounds and the last_val it was given
    segs,
    \* history: the arguments <<obs, act, rew, val, logp>> of the stores that
    \* succeeded since the buffer was built or last drained, in call order
    stored,
    \* history: the number of get calls that succeeded
    gets,
    \* number of Buffer method calls made so far by the free caller
    calls,
    \* vpg's parameters (src/vpg.py:49)
    steps_per_epoch, epochs, max_ep_len,
    \* vpg's locals (src/vpg.py:92, 98, 100, 105)
    obs, r, done, ep_ret, ep_len, epoch, step, a, v_t, logp_t,
    \* the Learner's value function net.v, as a function of the observation
    net_v,
    \* the reward returned by the latest env.step, NaN before the first
    env_r,
    \* where the training loop is: "caller" when the loop is not running
    pc,
    \* a module function called on its own: its name ("none" before the
    \* call), the array and the discount it is given, and what it returns
    called, arg_x, arg_discount, result

bufvars == <<obs_buf, act_buf, adv_buf, val_buf, rew_buf, ret_buf, logp_buf,
             gamma, lam, ptr, path_start_idx, max_size>>

loopvars == <<steps_per_epoch, epochs, max_ep_len, obs, r, done, ep_ret, ep_len,
              epoch, step, a, v_t, logp_t, net_v, env_r, pc>>

fnvars == <<called, arg_x, arg_discount, result>>

vars == <<bufvars, size, err, op, segs, stored, gets, calls, loopvars, fnvars>>

\* where the segment being written began: the end of the latest finalized one
SegStart == IF segs = <<>> THEN 0 ELSE segs[Len(segs)].end

NoOp == [name |-> "init", start |-> 0, last_val |-> Zero]

\* np.zeros(size)
zeros(n) == [i \in 0 .. n - 1 |-> Zero]

\* Buffer.__init__(obs_dim, act_dim, size, gamma, lam)
BufferInit(n, g, l) ==
    /\ obs_buf = [i \in 0 .. n - 1 |-> 0]
    /\ act_buf = [i \in 0 .. n - 1 |-> 0]
    /\ adv_buf = zeros(n)
    /\ val_buf = zeros(n)
    /\ rew_buf = zeros(n)
    /\ ret_buf = zeros(n)
    /\ logp_buf = [i \in 0 .. n - 1 |-> 0]
    /\ gamma = g
    /\ lam = l
    /\ ptr = 0
    /\ path_start_idx = 0
    /\ max_size = n

----------------------------------------------------------------------------
(* Buffer methods *)

\* store with the cursor advanced before the capacity check
store_checks_late(o, act, rew, val, logp) ==
    /\ op' = [name |-> "store", start |-> path_start_idx, last_val |-> Zero]
    /\ UNCHANGED <<segs, gets>>
    /\ stored' = IF ptr < max_size THEN Append(stored, <<o, act, rew, val, logp>>) ELSE stored
    /\ ptr' = ptr + 1
    /\ IF ptr < max_size
       THEN /\ obs_buf' = [obs_buf EXCEPT ![ptr] = o]
            /\ act_buf' = [act_buf EXCEPT ![ptr] = act]
            /\ rew_buf' = [rew_buf EXCEPT ![ptr] = rew]
            /\ val_buf' = [val_buf EXCEPT ![ptr] = val]
            /\ logp_buf' = [logp_buf EXCEPT ![ptr] = logp]
            /\ UNCHANGED <<adv_buf, ret_buf, gamma, lam, path_start_idx, max_size, err>>
       ELSE /\ err' = "AssertionError"
            /\ UNCHANGED <<obs_buf, act_buf, adv_buf, val_buf, rew_buf, ret_buf, logp_buf,
                           gamma, lam, path_start_idx, max_size>>

\* Buffer.store: the assert, then the five writes and the cursor advance
store(o, act, rew, val, logp) ==
    /\ op' = [name |-> "store", start |-> path_start_idx, last_val |-> Zero]
    /\ UNCHANGED <<segs, gets>>
    /\ stored' = IF ptr < max_size THEN Append(stored, <<o, act, rew, val, logp>>) ELSE stored
    /\ IF ptr < max_size
       THEN /\ obs_buf' = [obs_buf EXCEPT ![ptr] = o]
            /\ act_buf' = [act_buf EXCEPT ![ptr] = act]
            /\ rew_buf' = [rew_buf EXCEPT ![ptr] = rew]
            /\ val_buf' = [val_buf EXCEPT ![ptr] = val]
            /\ logp_buf' = [logp_buf EXCEPT ![ptr] = logp]
            /\ ptr' = ptr + 1
            /\ UNCHANGED <<adv_buf, ret_buf, gamma, lam, path_start_idx, max_size, err>>
       ELSE /\ err' = "AssertionError"
            /\ UNCHANGED bufvars

\* discount_cumsum without the two reversals: y[k] = x[k] + discount * y[k-1]
RECURSIVE discount_cumsum_forward(_, _)
discount_cumsum_forward(x, discount) ==
    IF x = <<>> THEN <<>>
    ELSE LET init == discount_cumsum_forward(SubSeq(x, 1, Len(x) - 1), discount)
             prev == IF init = <<>> THEN Zero ELSE init[Len(init)]
         IN  Append(init, RAdd(x[Len(x)], RMul(discount, prev)))

\* Buffer.discount_cumsum: lfilter([1], [1, -discount], x[::-1])[::-1], the
\* recurrence y[k] = x[k] + discount * y[k+1] run from the last entry, the
\* filter starting from state 0
RECURSIVE discount_cumsum(_, _)
discount_cumsum(x, discount) ==
    IF x = <<>> THEN <<>>
    ELSE LET rest == discount_cumsum(Tail(x), discount)
             prev == IF rest = <<>> THEN Zero ELSE rest[1]
         IN  <<RAdd(Head(x), RMul(discount, prev))>> \o rest

\* np.append(buf[path_slice], last_val) as a sequence
PathAppend(buf, start, end, last_val) ==
    [k \in 1 .. (end - start) + 1 |-> IF k <= end - start THEN buf[start + k - 1] ELSE last_val]

\* deltas with the next value left undiscounted
Deltas_undiscounted(rews, vals, g) ==
    [k \in 1 .. Len(rews) - 1 |-> RSub(RAdd(rews[k], vals[k + 1]), vals[k])]

\* deltas = rews[:-1] + gamma * vals[1:] - vals[:-1]
Deltas(rews, vals, g) ==
    [k \in 1 .. Len(rews) - 1 |-> RSub(RAdd(rews[k], RMul(g, vals[k + 1])), vals[k])]

\* the assignment building a new array that holds the slice only
PathAssign_fresh(buf, start, end, y) ==
    [i \in DOMAIN buf |-> IF start <= i /\ i < end THEN y[i - start + 1] ELSE Zero]

\* buf[path_slice] = y[0 : end-start]
PathAssign(buf, start, end, y) ==
    [i \in DOMAIN buf |-> IF start <= i /\ i < end THEN y[i - start + 1] ELSE buf[i]]

\* finish_path without the final path_start_idx = ptr
finish_path_keeps_start(last_val) ==
    LET rews == PathAppend(rew_buf, path_start_idx, ptr, last_val)
        vals == PathAppend(val_buf, path_start_idx, ptr, last_val)
        deltas == Deltas(rews, vals, gamma)
    IN  /\ op' = [name |-> "finish_path", start |-> path_start_idx, last_val |-> last_val]
        /\ segs' = IF SegStart < ptr
                   THEN Append(segs, [start |-> SegStart, end |-> ptr, last_val |-> last_val])
                   ELSE segs
        /\ UNCHANGED <<stored, gets>>
        /\ adv_buf' = PathAssign(adv_buf, path_start_idx, ptr,
                                 discount_cumsum(deltas, RMul(gamma, lam)))
        /\ ret_buf' = PathAssign(ret_buf, path_start_idx, ptr,
                                 discount_cumsum(rews, gamma))
        /\ UNCHANGED <<obs_buf, act_buf, val_buf, rew_buf, logp_buf,
                       gamma, lam, ptr, path_start_idx, max_size, err>>

\* Buffer.finish_path
finish_path(last_val) ==
    LET rews == PathAppend(rew_buf, path_start_idx, ptr, last_val)
        vals == PathAppend(val_buf, path_start_idx, ptr, last_val)
        deltas == Deltas(rews, vals, gamma)
    IN  /\ op' = [name |-> "finish_path", start |-> path_start_idx, last_val |-> last_val]
        /\ segs' = IF SegStart < ptr
                   THEN Append(segs, [start |-> SegStart, end |-> ptr, last_val |-> last_val])
                   ELSE segs
        /\ UNCHANGED <<stored, gets>>
        /\ adv_buf' = PathAssign(adv_buf, path_start_idx, ptr,
                                 discount_cumsum(deltas, RMul(gamma, lam)))
        /\ ret_buf' = PathAssign(ret_buf, path_start_idx, ptr,
                                 discount_cumsum(rews, gamma))
        /\ path_start_idx' = ptr
        /\ UNCHANGED <<obs_buf, act_buf, val_buf, rew_buf, logp_buf,
                       gamma, lam, ptr, max_size, err>>

\* get_stats with the deviations squared before they are summed
get_stats_sum_of_squares(x, n) ==
    LET mean == RDiv(RSumTo(x, n), RInt(n))
        squares == [i \in 0 .. n - 1 |-> RMul(RSub(x[i], mean), RSub(x[i], mean))]
    IN  [mean |-> mean, std |-> RSqrt(RDiv(RSumTo(squares, n), RInt(n)))]

\* get_stats: mean and std of the array x of length n (its max and min are
\* not used by Buffer.get)
get_stats(x, n) ==
    LET mean == RDiv(RSumTo(x, n), RInt(n))
        centred == [i \in 0 .. n - 1 |-> RSub(x[i], mean)]
        s == RSumTo(centred, n)
    IN  [mean |-> mean, std |-> RSqrt(RDiv(RMul(s, s), RInt(n)))]

\* get resetting the write cursor only
get_keeps_path_start ==
    /\ op' = [name |-> "get", start |-> path_start_idx, last_val |-> Zero]
    /\ IF ptr = max_size
       THEN LET stats == get_stats(adv_buf, max_size)
            IN  /\ ptr' = 0
                /\ adv_buf' = [i \in DOMAIN adv_buf |->
                                  RDiv(RSub(adv_buf[i], stats.mean), stats.std)]
                /\ segs' = <<>>
                /\ stored' = <<>>
                /\ gets' = gets + 1
                /\ UNCHANGED <<obs_buf, act_buf, val_buf, rew_buf, ret_buf, logp_buf,
                               gamma, lam, path_start_idx, max_size, err>>
       ELSE /\ err' = "AssertionError"
            /\ UNCHANGED <<bufvars, segs, stored, gets>>

\* get resetting the pointers before it checks that the buffer is full
get_resets_first ==
    /\ op' = [name |-> "get", start |-> path_start_idx, last_val |-> Zero]
    /\ ptr' = 0
    /\ path_start_idx' = 0
    /\ IF ptr = max_size
       THEN LET stats == get_stats(adv_buf, max_size)
            IN  /\ adv_buf' = [i \in DOMAIN adv_buf |->
                                  RDiv(RSub(adv_buf[i], stats.mean), stats.std)]
                /\ segs' = <<>>
                /\ stored' = <<>>
                /\ gets' = gets + 1
                /\ UNCHANGED <<obs_buf, act_buf, val_buf, rew_buf, ret_buf, logp_buf,
                               gamma, lam, max_size, err>>
       ELSE /\ err' = "AssertionError"
            /\ UNCHANGED <<obs_buf, act_buf, adv_buf, val_buf, rew_buf, ret_buf, logp_buf,
                           gamma, lam, max_size, segs, stored, gets>>

\* Buffer.get: the assert, the reset, then the normalisation
get ==
    /\ op' = [name |-> "get", start |-> path_start_idx, last_val |-> Zero]
    /\ IF ptr = max_size
       THEN LET stats == get_stats(adv_buf, max_size)
            IN  /\ ptr' = 0
                /\ path_start_idx' = 0
                /\ adv_buf' = [i \in DOMAIN adv_buf |->
                                  RDiv(RSub(adv_buf[i], stats.mean), stats.std)]
                /\ segs' = <<>>
                /\ stored' = <<>>
                /\ gets' = gets + 1
                /\ UNCHANGED <<obs_buf, act_buf, val_buf, rew_buf, ret_buf, logp_buf,
                               gamma, lam, max_size, err>>
       ELSE /\ err' = "AssertionError"
            /\ UNCHANGED <<bufvars, segs, stored, gets>>

\* the list returned by get with the returns before the advantages
GetResult_returns_first == <<obs_buf, act_buf, ret_buf, adv_buf, logp_buf>>

\* the list returned by Buffer.get (src/common.py:115), read in the state get
\* leaves: the list holds the arrays themselves
GetResult == <<obs_buf, act_buf, adv_buf, ret_buf, logp_buf>>

----------------------------------------------------------------------------
(* SpecFn: discount_cumsum and get_stats called on their own, once, on any
   array of 1 to MaxLen entries *)

InitFn ==
    /\ arg_x \in FnArrays
    /\ arg_discount \in FnDiscounts
    /\ called = "none"
    /\ result = <<>>
    /\ size = 1
    /\ BufferInit(1, <<9, 10>>, <<1, 2>>)
    /\ err = "none"
    /\ op = NoOp
    /\ segs = <<>>
    /\ stored = <<>>
    /\ gets = 0
    /\ calls = 0
    /\ steps_per_epoch = 0 /\ epochs = 0 /\ max_ep_len = 0
    /\ obs = 0 /\ r = Zero /\ done = FALSE /\ ep_ret = Zero /\ ep_len = 0
    /\ epoch = 0 /\ step = 0 /\ a = 0 /\ v_t = Zero /\ logp_t = 0
    /\ net_v = [o \in ObsSet |-> Zero]
    /\ env_r = NaN
    /\ pc = "caller"

\* y = discount_cumsum(x, discount)
CallDiscountCumsum ==
    /\ called = "none"
    /\ called' = "discount_cumsum"
    /\ result' = discount_cumsum(arg_x, arg_discount)
    /\ UNCHANGED <<arg_x, arg_discount, bufvars, size, err, op, segs, stored, gets, calls, loopvars>>

\* mean, std, _, _ = get_stats(x), x a numpy array of len(x) entries; the
\* result kept is the list's first two entries
CallGetStats ==
    /\ called = "none"
    /\ called' = "get_stats"
    /\ LET stats == get_stats([i \in 0 .. Len(arg_x) - 1 |-> arg_x[i + 1]], Len(arg_x))
       IN  result' = <<stats.mean, stats.std>>
    /\ UNCHANGED <<arg_x, arg_discount, bufvars, size, err, op, segs, stored, gets, calls, loopvars>>

NextFn == CallDiscountCumsum \/ CallGetStats

SpecFn == InitFn /\ [][NextFn]_vars

----------------------------------------------------------------------------
(* Spec: one buffer driven by a caller that makes any sequence of calls *)

Init ==
    /\ size \in 1 .. MaxSize
    /\ \E g \in Gammas, l \in Lams : BufferInit(size, g, l)
    /\ err = "none"
    /\ op = NoOp
    /\ segs = <<>>
    /\ stored = <<>>
    /\ gets = 0
    /\ calls = 0
    /\ steps_per_epoch = 0 /\ epochs = 0 /\ max_ep_len = 0
    /\ obs = 0 /\ r = Zero /\ done = FALSE /\ ep_ret = Zero /\ ep_len = 0
    /\ epoch = 0 /\ step = 0 /\ a = 0 /\ v_t = Zero /\ logp_t = 0
    /\ net_v = [o \in ObsSet |-> Zero]
    /\ env_r = NaN
    /\ pc = "caller"
    /\ called = "none" /\ arg_x = <<>> /\ arg_discount = Zero /\ result = <<>>

CallStore ==
    /\ err = "none" /\ calls < MaxCalls
    /\ \E t \in StoreArgs : store(t[1], t[2], t[3], t[4], t[5])
    /\ calls' = calls + 1
    /\ UNCHANGED <<size, loopvars, fnvars>>

CallFinishPath ==
    /\ err = "none" /\ calls < MaxCalls
    /\ \E last_val \in LastVals : finish_path(last_val)
    /\ calls' = calls + 1
    /\ UNCHANGED <<size, loopvars, fnvars>>

CallGet ==
    /\ err = "none" /\ calls < MaxCalls
    /\ get
    /\ calls' = calls + 1
    /\ UNCHANGED <<size, loopvars, fnvars>>

Next == CallStore \/ CallFinishPath \/ CallGet

Spec == Init /\ [][Next]_vars

----------------------------------------------------------------------------
(* SpecVpg: the training loop vpg of src/vpg.py *)

\* a range that includes its end
Range_inclusive(n) == 0 .. n

\* range(n)
Range(n) == 0 .. n - 1

\* value functions the Learner may hold
ValueFns == [ObsSet -> ValSet]

InitVpg ==
    /\ steps_per_epoch \in 1 .. MaxEpochSteps
    /\ epochs \in 1 .. (MaxSteps \div steps_per_epoch)
    /\ max_ep_len \in 0 .. MaxEpLen
    /\ size = steps_per_epoch
    /\ \E g \in VpgGammas, l \in VpgLams : BufferInit(steps_per_epoch, g, l)
    /\ err = "none"
    /\ op = NoOp
    /\ segs = <<>>
    /\ stored = <<>>
    /\ gets = 0
    /\ calls = 0
    /\ net_v \in ValueFns
    /\ obs \in ObsSet
    /\ r = Zero /\ done = FALSE /\ ep_ret = Zero /\ ep_len = 0
    /\ epoch = 0 /\ step = 0 /\ a = 0 /\ v_t = Zero /\ logp_t = 0
    /\ env_r = NaN
    /\ pc = IF 0 \in Range(epochs) THEN "store" ELSE "done"
    /\ called = "none" /\ arg_x = <<>> /\ arg_discount = Zero /\ result = <<>>

\* the end of one pass of the inner loop going on to the next step always
NextStep_never_updates ==
    /\ step' = step + 1
    /\ pc' = "store"

\* the end of one pass of the inner for loop: the next step, or the update
NextStep ==
    /\ step' = step + 1
    /\ pc' = IF step + 1 \in Range(steps_per_epoch) THEN "store" ELSE "update"

\* the boundary test without the cut at the end of the epoch
AtBoundary_episode_only(d, len, st) == d \/ len = max_ep_len

\* the boundary test cutting a trajectory only once it is over the maximum length
AtBoundary_after_max(d, len, st) == d \/ len > max_ep_len \/ st = steps_per_epoch - 1

\* the boundary test of src/vpg.py:115
AtBoundary(d, len, st) == d \/ len = max_ep_len \/ st = steps_per_epoch - 1

\* src/vpg.py:105-108: query the Learner, then buf.store(obs, a, r, v_t, logp_t)
StoreStep ==
    /\ pc = "store" /\ err = "none"
    /\ \E act \in ActSet, logp \in LogpSet :
          /\ a' = act
          /\ v_t' = net_v[obs]
          /\ logp_t' = logp
          /\ store(obs, act, r, net_v[obs], logp)
    /\ pc' = IF err' = "none" THEN "env" ELSE "aborted"
    /\ UNCHANGED <<fnvars, size, calls, steps_per_epoch, epochs, max_ep_len, obs, r, done,
                   ep_ret, ep_len, epoch, step, net_v, env_r>>

\* src/vpg.py:110-115: step the World, accumulate, test for a boundary
EnvStep ==
    /\ pc = "env" /\ err = "none"
    /\ \E o \in ObsSet, rew \in RewSet, d \in BOOLEAN :
          /\ obs' = o
          /\ r' = rew
          /\ env_r' = rew
          /\ done' = d
          /\ ep_ret' = RAdd(ep_ret, rew)
          /\ ep_len' = ep_len + 1
          /\ IF AtBoundary(d, ep_len + 1, step)
             THEN pc' = "finish" /\ step' = step
             ELSE NextStep
    /\ UNCHANGED <<fnvars, bufvars, size, err, op, segs, stored, gets, calls, steps_per_epoch, epochs, max_ep_len,
                   epoch, a, v_t, logp_t, net_v>>

\* the value handed to finish_path taken from the estimate stored at the cutoff step
LastVal_stored == IF done THEN r ELSE v_t

\* src/vpg.py:117: the value handed to finish_path
LastVal == IF done THEN r ELSE net_v[obs]

\* src/vpg.py:117-118: buf.finish_path(last_val)
FinishStep ==
    /\ pc = "finish" /\ err = "none"
    /\ finish_path(LastVal)
    /\ pc' = "reset"
    /\ UNCHANGED <<fnvars, size, calls, steps_per_epoch, epochs, max_ep_len, obs, r, done,
                   ep_ret, ep_len, epoch, step, a, v_t, logp_t, net_v, env_r>>

\* the reset at a boundary with the episode length left as it was
ResetStep_keeps_length ==
    /\ pc = "reset" /\ err = "none"
    /\ \E o \in ObsSet : obs' = o
    /\ r' = Zero /\ done' = FALSE /\ ep_ret' = Zero
    /\ NextStep
    /\ UNCHANGED <<fnvars, bufvars, size, err, op, segs, stored, gets, calls, steps_per_epoch, epochs, max_ep_len,
                   epoch, a, v_t, logp_t, net_v, env_r, ep_len>>

\* the reset at a boundary with the reward left as it was
ResetStep_keeps_reward ==
    /\ pc = "reset" /\ err = "none"
    /\ \E o \in ObsSet : obs' = o
    /\ done' = FALSE /\ ep_ret' = Zero /\ ep_len' = 0
    /\ NextStep
    /\ UNCHANGED <<fnvars, bufvars, size, err, op, segs, stored, gets, calls, steps_per_epoch, epochs, max_ep_len,
                   epoch, a, v_t, logp_t, net_v, env_r, r>>

\* src/vpg.py:120-129: log the episode, reset the World and the accumulators
\* (the episode counter and the log lines are not modelled)
ResetStep ==
    /\ pc = "reset" /\ err = "none"
    /\ \E o \in ObsSet : obs' = o
    /\ r' = Zero /\ done' = FALSE /\ ep_ret' = Zero /\ ep_len' = 0
    /\ NextStep
    /\ UNCHANGED <<fnvars, bufvars, size, err, op, segs, stored, gets, calls, steps_per_epoch, epochs, max_ep_len,
                   epoch, a, v_t, logp_t, net_v, env_r>>

\* src/vpg.py:132, 71-80: update() drains the buffer with buf.get() and
\* trains the Learner, which leaves it with some value function; then the
\* outer for loop goes on to the next epoch or ends
UpdateStep ==
    /\ pc = "update" /\ err = "none"
    /\ get
    /\ IF err' = "none"
       THEN /\ net_v' \in ValueFns
            /\ epoch' = epoch + 1
            /\ step' = 0
            /\ pc' = IF epoch + 1 \in Range(epochs) THEN "store" ELSE "done"
       ELSE /\ pc' = "aborted"
            /\ UNCHANGED <<net_v, epoch, step>>
    /\ UNCHANGED <<fnvars, size, calls, steps_per_epoch, epochs, max_ep_len, obs, r, done,
                   ep_ret, ep_len, a, v_t, logp_t, env_r>>

NextVpg == StoreStep \/ EnvStep \/ FinishStep \/ ResetStep \/ UpdateStep

SpecVpg == InitVpg /\ [][NextVpg]_vars

----------------------------------------------------------------------------
(* The claims *)

\* the arrays of the buffer
arrays == <<obs_buf, act_buf, adv_buf, val_buf, rew_buf, ret_buf, logp_buf>>

\* C1: after any sequence of store, finish_path and get calls on a buffer
\* built with capacity size, 0 <= path_start_idx <= ptr <= max_size, and
\* max_size is still size.
C1_PointerOrder ==
    /\ 0 <= path_start_idx
    /\ path_start_idx <= ptr
    /\ ptr <= max_size
    /\ max_size = size

\* a buffer drained by get after stores and a finish_path that left returns
C1_Witness ==
    /\ op.name = "get" /\ err = "none"
    /\ ptr = 0 /\ path_start_idx = 0
    /\ max_size >= 2
    /\ ret_buf[0] # Zero

\* C2: a store on a buffer with room (ptr < max_size) succeeds and advances
\* ptr by one, so that from an empty buffer exactly max_size stores succeed;
\* a store on a full buffer (ptr = max_size) ends the run with an assertion
\* error and changes neither ptr, path_start_idx nor any array slot.
\* (Under Spec every step is one Buffer call, which the step's op' names.)
C2_StoreCapacity ==
    [][op'.name = "store" =>
          IF ptr < max_size
          THEN err' = "none" /\ ptr' = ptr + 1
          ELSE /\ ptr = max_size
               /\ err' = "AssertionError"
               /\ UNCHANGED <<ptr, path_start_idx, arrays>>]_vars

\* the store after max_size stores has failed
C2_Witness ==
    /\ op.name = "store" /\ err = "AssertionError"
    /\ max_size >= 2 /\ ptr = max_size
    /\ calls = max_size + 1

\* C3: a get on a buffer that is not exactly full ends the run with an
\* assertion error and leaves ptr, path_start_idx and adv_buf as they were.
C3_PrematureGet ==
    [][(op'.name = "get" /\ ptr # max_size) =>
          /\ err' = "AssertionError"
          /\ UNCHANGED <<ptr, path_start_idx, adv_buf>>]_vars

\* get has failed on a partly filled buffer with a finalized segment
C3_Witness ==
    /\ op.name = "get" /\ err = "AssertionError"
    /\ 0 < path_start_idx /\ path_start_idx < ptr /\ ptr < max_size
    /\ adv_buf[0] # Zero

\* the TD residual of slot j in a segment ending before index end with
\* bootstrap value b: r[j] + gamma * v[j+1] - v[j], v[end] = b
Delta(end, b, j) ==
    RSub(RAdd(rew_buf[j], RMul(gamma, IF j + 1 < end THEN val_buf[j + 1] ELSE b)),
         val_buf[j])

\* sum over j in [i, end) of (gamma*lam)^(j-i) * delta[j]
GaeSum(end, b, i) ==
    LET terms == [k \in 0 .. end - i - 1 |->
                     RMul(RPow(RMul(gamma, lam), k), Delta(end, b, i + k))]
    IN  RSumTo(terms, end - i)

\* sum over j in [i, end) of gamma^(j-i) * r[j], plus gamma^(end-i) * b
RewardToGo(end, b, i) ==
    LET terms == [k \in 0 .. end - i - 1 |-> RMul(RPow(gamma, k), rew_buf[i + k])]
    IN  RAdd(RSumTo(terms, end - i), RMul(RPow(gamma, end - i), b))

\* C5: after finish_path(b) on the segment [start, ptr), every slot i of the
\* segment holds adv[i] = sum over j in [i, ptr) of (gamma*lam)^(j-i) * delta[j]
\* with delta[j] = r[j] + gamma * v[j+1] - v[j] and v[ptr] = b; for a segment
\* of one step that is r + gamma * b - v.
C5_Advantage ==
    op.name = "finish_path" =>
        /\ \A i \in op.start .. ptr - 1 : adv_buf[i] = GaeSum(ptr, op.last_val, i)
        /\ ptr - op.start = 1 =>
              adv_buf[op.start] =
                  RSub(RAdd(rew_buf[op.start], RMul(gamma, op.last_val)), val_buf[op.start])

\* finish_path has finalized a segment of three steps with a bootstrap value,
\* with gamma = 0.9, and its last step has r = 1, v = 0.5
C5_Witness ==
    /\ op.name = "finish_path"
    /\ ptr - op.start = 3
    /\ op.last_val # Zero
    /\ gamma = <<9, 10>>
    /\ rew_buf[ptr - 1] = One /\ val_buf[ptr - 1] = <<1, 2>>
    /\ adv_buf[op.start] # adv_buf[op.start + 1]

\* C6: after finish_path(b) on the segment [start, ptr), every slot i of the
\* segment holds ret[i] = sum over j in [i, ptr) of gamma^(j-i) * r[j]
\* + gamma^(ptr-i) * b; with b = 0 that is the discounted reward-to-go of
\* the segment's own rewards.
C6_Return ==
    op.name = "finish_path" =>
        \A i \in op.start .. ptr - 1 :
            /\ ret_buf[i] = RewardToGo(ptr, op.last_val, i)
            /\ op.last_val = Zero =>
                  ret_buf[i] = RSumTo([k \in 0 .. ptr - i - 1 |->
                                          RMul(RPow(gamma, k), rew_buf[i + k])], ptr - i)

\* finish_path has finalized a second segment, of two steps with rewards and
\* a bootstrap value
C6_Witness ==
    /\ op.name = "finish_path"
    /\ op.start > 0
    /\ ptr - op.start = 2
    /\ op.last_val # Zero
    /\ rew_buf[op.start] = One /\ rew_buf[op.start + 1] = One

\* C4: in the training loop no Buffer assertion fails: store is reached only
\* with ptr < max_size, the update (get) only with ptr = max_size, and ptr is
\* the number of steps of the epoch taken so far, so the loop goes from
\* collecting to updating exactly when the write cursor reaches capacity.
C4_LoopRespectsBuffer ==
    /\ err = "none" /\ pc # "aborted"
    /\ max_size = steps_per_epoch
    /\ pc = "store" => (ptr = step /\ ptr < max_size)
    /\ pc \in {"env", "finish", "reset"} => (ptr = step + 1 /\ ptr <= max_size)
    /\ pc = "update" => (ptr = max_size /\ step = steps_per_epoch)

\* the loop is about to update at the end of its second epoch of two
\* steps, the epoch holding two trajectories
C4_Witness ==
    /\ pc = "update" /\ epoch = 1
    /\ steps_per_epoch = 2
    /\ Len(segs) = 2
    /\ ptr = max_size

\* C7: while an epoch is collected, the advantage and the return at every
\* index i of a finalized segment are the sums over that segment's own
\* rewards, values and bootstrap value alone, whatever was stored or
\* finalized before or after it.  The right-hand sides read nothing outside
\* [start, end) but the segment's last_val, so two runs that agree there
\* agree on adv[i] and ret[i].
C7_SegmentLocal ==
    \A k \in 1 .. Len(segs) :
        \A i \in segs[k].start .. segs[k].end - 1 :
            /\ adv_buf[i] = GaeSum(segs[k].end, segs[k].last_val, i)
            /\ ret_buf[i] = RewardToGo(segs[k].end, segs[k].last_val, i)

\* capacity 4, segment [0,2) finished with bootstrap 0 and segment [2,4)
\* finished with bootstrap 2: only ret[2] and ret[3] hold the bootstrap term
C7_Witness ==
    /\ max_size = 4 /\ ptr = 4
    /\ segs = <<[start |-> 0, end |-> 2, last_val |-> Zero],
                [start |-> 2, end |-> 4, last_val |-> <<2, 1>>]>>
    /\ ret_buf[3] = RAdd(rew_buf[3], RMul(gamma, <<2, 1>>))
    /\ ret_buf[2] = RAdd(rew_buf[2], RMul(gamma, ret_buf[3]))
    /\ ret_buf[1] = rew_buf[1]
    /\ ret_buf[0] = RAdd(rew_buf[0], RMul(gamma, rew_buf[1]))
    /\ rew_buf[1] = One

\* C8, as claimed: when the loop has finalized a trajectory that the
\* environment ended (done), the bootstrap value it passed to finish_path
\* is 0.
C8_TerminalBootstrapZero ==
    (pc = "reset" /\ done) => op.last_val = Zero

\* C9: once the loop has stored a step and is about to step the environment
\* with that step's action, the slot just written holds that action, the
\* observation it was chosen for, and as reward the one returned by the
\* previous environment step of the same trajectory, or 0 when the step is
\* the first of its trajectory; the first step of an epoch is the first of
\* a trajectory.
C9_RewardLag ==
    pc = "env" =>
        /\ op.name = "store"
        /\ ptr = step + 1
        /\ act_buf[ptr - 1] = a
        /\ obs_buf[ptr - 1] = obs
        /\ rew_buf[ptr - 1] = (IF ep_len = 0 THEN Zero ELSE env_r)
        /\ step = 0 => (ep_len = 0 /\ rew_buf[0] = Zero)

\* in the second epoch, a step in mid-trajectory has stored the reward 1 of
\* the step before it, after a trajectory whose last reward was 1 too
C9_Witness ==
    /\ pc = "env" /\ epoch = 1
    /\ ep_len = 1 /\ step = 1
    /\ rew_buf[0] = Zero
    /\ rew_buf[1] = One /\ env_r = One

\* mean of the squares of the array x of length n
MeanSquare(x, n) == RDiv(RSumTo([i \in 0 .. n - 1 |-> RMul(x[i], x[i])], n), RInt(n))

\* C10, as claimed: the get of an epoch whose finalized advantages are not
\* all equal leaves finite advantages with mean 0 and standard deviation 1
\* (mean square 1).
C10_Normalized ==
    [][(pc = "update" /\ \E i, j \in DOMAIN adv_buf : adv_buf[i] # adv_buf[j]) =>
          /\ \A i \in DOMAIN adv_buf : IsFinite(adv_buf'[i])
          /\ RSumTo(adv_buf', max_size) = Zero
          /\ MeanSquare(adv_buf', max_size) = One]_vars

\* C11: a get on a full buffer succeeds and leaves ptr = 0 and
\* path_start_idx = 0; the stores that succeeded since the buffer was built
\* or last drained are ptr many, each store with room succeeds whatever came
\* before and overwrites the slot at its cursor with its arguments, and get
\* succeeds exactly when max_size stores were made since, epoch after epoch.
\* (Under Spec every step is one Buffer call, which the step's op' names.)
C11_Reuse ==
    [][/\ Len(stored') = ptr'
       /\ op'.name = "get" =>
             IF Len(stored) = max_size
             THEN err' = "none" /\ ptr' = 0 /\ path_start_idx' = 0 /\ gets' = gets + 1
             ELSE err' = "AssertionError" /\ gets' = gets
       /\ (op'.name = "store" /\ Len(stored) < max_size) =>
             /\ err' = "none"
             /\ ptr' = ptr + 1
             /\ <<obs_buf'[ptr], act_buf'[ptr], rew_buf'[ptr], val_buf'[ptr], logp_buf'[ptr]>>
                   = stored'[Len(stored')]]_vars

\* the second get in a row has succeeded on a buffer of capacity 2, after
\* two stores overwrote the slots of the first epoch
C11_Witness ==
    /\ op.name = "get" /\ err = "none"
    /\ gets = 2 /\ max_size = 2
    /\ ptr = 0 /\ path_start_idx = 0
    /\ obs_buf[0] # obs_buf[1]

\* C12: a successful get returns five arrays of length max_size, in the order
\* observations, actions, advantages, returns, log-probabilities; at every
\* index i the observation, action and log-probability are the arguments of
\* the (i+1)-th store of the epoch, and for i in a finalized segment the
\* return is that timestep's reward-to-go and the advantage is that
\* timestep's GAE advantage, centred and divided by the statistics get uses.
C12_Aligned ==
    [][(op'.name = "get" /\ err' = "none") =>
          LET res == GetResult'
              stats == get_stats(adv_buf, max_size)
          IN  /\ Len(res) = 5
              /\ \A k \in 1 .. 5 : DOMAIN res[k] = 0 .. max_size - 1
              /\ Len(stored) = max_size
              /\ \A i \in 0 .. max_size - 1 :
                    /\ res[1][i] = stored[i + 1][1]
                    /\ res[2][i] = stored[i + 1][2]
                    /\ res[5][i] = stored[i + 1][5]
              /\ \A k \in 1 .. Len(segs) :
                    \A i \in segs[k].start .. segs[k].end - 1 :
                        /\ res[4][i] = RewardToGo(segs[k].end, segs[k].last_val, i)
                        /\ res[3][i] =
                              RDiv(RSub(GaeSum(segs[k].end, segs[k].last_val, i), stats.mean),
                                   stats.std)]_vars

\* get has returned an epoch of three timesteps with different observations,
\* finalized as one segment with rewards
C12_Witness ==
    /\ op.name = "get" /\ err = "none"
    /\ max_size = 3
    /\ GetResult[1] = [i \in 0 .. 2 |-> IF i = 1 THEN 2 ELSE 1]
    /\ GetResult[4][0] # Zero /\ GetResult[4][2] # Zero
    /\ GetResult[3][0] # GetResult[3][2]

\* C13: in the training loop finish_path is called once per trajectory
\* segment. The loop is about to call it (pc = "finish") only after a step
\* that ended the episode, reached max_ep_len or was the epoch's last, and
\* goes on to the next step without calling it only after a step where none
\* of the three holds; at the call the open segment is the trajectory's
\* ep_len >= 1 steps (path_start_idx < ptr), right after it nothing is open,
\* and between calls the open steps are exactly the running trajectory's.
C13_OncePerSegment ==
    /\ pc = "finish" =>
          /\ done \/ ep_len = max_ep_len \/ step = steps_per_epoch - 1
          /\ path_start_idx < ptr
          /\ ptr - path_start_idx = ep_len
    /\ (pc = "store" /\ ep_len > 0) =>
          ~(done \/ ep_len = max_ep_len \/ step - 1 = steps_per_epoch - 1)
    /\ pc \in {"store", "update", "done"} => ptr - path_start_idx = ep_len
    /\ pc = "env" => ptr - path_start_idx = ep_len + 1
    /\ pc = "reset" =>
          /\ op.name = "finish_path"
          /\ path_start_idx = ptr
          /\ Len(segs) >= 1
          /\ segs[Len(segs)].start = op.start /\ segs[Len(segs)].end = ptr
    /\ \A k \in 1 .. Len(segs) : segs[k].start < segs[k].end
    /\ \A k \in 1 .. Len(segs) - 1 : segs[k + 1].start = segs[k].end

\* the loop is about to finalize a second segment in the middle of an epoch,
\* cut because the trajectory reached max_ep_len without ending
C13_Witness ==
    /\ pc = "finish" /\ ~done
    /\ ep_len = max_ep_len
    /\ step < steps_per_epoch - 1
    /\ path_start_idx > 0 /\ path_start_idx < ptr

Progress ==
    epoch * (4 * steps_per_epoch + 1) + 4 * step
      + (CASE pc = "env" -> 1 [] pc = "finish" -> 2 [] pc = "reset" -> 3 [] OTHER -> 0)

DiscountedTail(x, discount, i) ==
    RSumTo([k \in 0 .. Len(x) - i |-> RMul(RPow(discount, k), x[i + k])], Len(x) - i + 1)

\* C16: discount_cumsum(x, discount) returns y as long as x whose last entry
\* is x's last entry and whose every other entry y[i] is
\* x[i] + discount * y[i+1], which is the sum over j >= i of
\* discount^(j-i) * x[j]; discount_cumsum([1, 1, 1], 0.5) is [1.75, 1.5, 1].
C16_DiscountCumsum ==
    called = "discount_cumsum" =>
        LET n == Len(arg_x)
        IN  /\ Len(result) = n
            /\ result[n] = arg_x[n]
            /\ \A i \in 1 .. n - 1 :
                  result[i] = RAdd(arg_x[i], RMul(arg_discount, result[i + 1]))
            /\ \A i \in 1 .. n : result[i] = DiscountedTail(arg_x, arg_discount, i)
            /\ (arg_x = <<One, One, One>> /\ arg_discount = <<1, 2>>) =>
                  result = <<(<<7, 4>>), (<<3, 2>>), One>>

\* discount_cumsum has returned [1.75, 1.5, 1] on [1, 1, 1] and 0.5
C16_Witness ==
    /\ called = "discount_cumsum"
    /\ arg_x = <<One, One, One>> /\ arg_discount = <<1, 2>>
    /\ result[1] = <<7, 4>> /\ result[2] = <<3, 2>> /\ result[3] = One

\* C17: whenever the training loop is about to call get,
\* path_start_idx = ptr = max_size, and the segments finalized in the epoch
\* are non-empty, start at 0, each start where the one before ends, and end
\* at max_size; so every advantage and return slot holds the value a
\* finish_path call of this epoch computed for it.
C17_EpochCovered ==
    pc = "update" =>
        /\ path_start_idx = ptr /\ ptr = max_size
        /\ Len(segs) >= 1
        /\ segs[1].start = 0
        /\ segs[Len(segs)].end = max_size
        /\ \A k \in 1 .. Len(segs) : segs[k].start < segs[k].end
        /\ \A k \in 1 .. Len(segs) - 1 : segs[k + 1].start = segs[k].end
        /\ \A k \in 1 .. Len(segs) :
              \A i \in segs[k].start .. segs[k].end - 1 :
                  /\ adv_buf[i] = GaeSum(segs[k].end, segs[k].last_val, i)
                  /\ ret_buf[i] = RewardToGo(segs[k].end, segs[k].last_val, i)

\* the loop is about to make its second update, on an epoch of two segments
\* whose advantages replaced all those the first update had left
C17_Witness ==
    /\ pc = "update"
    /\ gets = 1 /\ steps_per_epoch = 2
    /\ Len(segs) = 2
    /\ \A i \in 0 .. 1 : IsFinite(adv_buf[i])

C19_Frame ==
    [][/\ (op'.name = "store" /\ err' = "none") =>
             /\ \A i \in (0 .. max_size - 1) \ {ptr} :
                   /\ obs_buf'[i] = obs_buf[i] /\ act_buf'[i] = act_buf[i]
                   /\ rew_buf'[i] = rew_buf[i] /\ val_buf'[i] = val_buf[i]
                   /\ logp_buf'[i] = logp_buf[i]
             /\ adv_buf' = adv_buf /\ ret_buf' = ret_buf
             /\ path_start_idx' = path_start_idx
       /\ op'.name = "finish_path" =>
             /\ ptr' = ptr
             /\ path_start_idx' = ptr
             /\ obs_buf' = obs_buf /\ act_buf' = act_buf /\ rew_buf' = rew_buf
             /\ val_buf' = val_buf /\ logp_buf' = logp_buf
             /\ \A i \in (0 .. max_size - 1) \ (path_start_idx .. ptr - 1) :
                   adv_buf'[i] = adv_buf[i] /\ ret_buf'[i] = ret_buf[i]]_vars

\* a second segment has been finalized and the first segment's advantage and
\* return are still in place
C19_Witness ==
    /\ op.name = "finish_path" /\ err = "none"
    /\ op.start > 0 /\ op.start < ptr
    /\ Len(segs) = 2
    /\ adv_buf[0] # Zero /\ ret_buf[0] # Zero
    /\ adv_buf[0] = GaeSum(segs[1].end, segs[1].last_val, 0)

\* C20: in a run of the training loop with max_ep_len >= 1, ep_len is at
\* least 0 and less than max_ep_len whenever a step starts and never above
\* max_ep_len; no finalized segment is longer than max_ep_len or than
\* steps_per_epoch; and ep_len and ep_ret are 0 when an epoch starts.
C20_EpisodeLength ==
    max_ep_len >= 1 =>
        /\ pc = "store" => (0 <= ep_len /\ ep_len < max_ep_len)
        /\ 0 <= ep_len /\ ep_len <= max_ep_len
        /\ \A k \in 1 .. Len(segs) :
              /\ segs[k].end - segs[k].start <= max_ep_len
              /\ segs[k].end - segs[k].start <= steps_per_epoch
        /\ (pc = "store" /\ step = 0) => (ep_len = 0 /\ ep_ret = Zero)

\* a step starts with ep_len = 0 after a trajectory was cut, in the middle of
\* an epoch of three steps, at the maximum length 2
C20_Witness ==
    /\ pc = "store" /\ ep_len = 0
    /\ max_ep_len = 2 /\ steps_per_epoch = 3
    /\ step = 2
    /\ Len(segs) = 1 /\ segs[1].end - segs[1].start = max_ep_len

=============================================================================
